---- MODULE Spec2Model ----
(***************************************************************************)
(* Phrase Cards (src/app.js): the IndexedDB-backed card store with its two *)
(* object stores `cards` and `blobs`, the UI handlers that issue store     *)
(* operations, and the trimmed-section playback monitor of the card view.  *)
(***************************************************************************)
EXTENDS Integers, Sequences, FiniteSets, TLC

(* ------------------------------ bounds --------------------------------- *)
\* number of card ids crypto.randomUUID() hands out
MaxCards == 2
\* largest value Date.now() reaches
MaxTime == 1
\* transactions that may be pending on the connection at once
MaxQueue == 2
\* save/delete calls issued in one run
MaxOps == 2
\* largest playhead position, in seconds, the media engine reports
MaxSec == 2
\* Play Trimmed Section clicks in one card view
MaxClicks == 2
\* tempo checkboxes of the session form: 40, 50, ... BPM
MaxTempoBoxes == 3
\* sessions of the card renderCardList renders
MaxListed == 2
\* Save Changes clicks followed in one card view
MaxMetaClicks == 2

Ids == 1..MaxCards
Times == 0..MaxTime
\* audioBlobId: '' (app.js:401)
NoBlobId == 0
\* files the user may pick in the file input
Payloads == {"f1", "f2"}
\* selectedFile = null (app.js:10), blob argument null (app.js:674)
NoFile == "none"
\* pairs parseFloat(input.value) || 0 yields for what is typed into the start
\* and end fields of a trim: end above start (with start zero or negative),
\* end equal to start, end below start
TrimInputs == { <<0, 1>>, <<0 - 1, 1>>, <<1, 1>>, <<1, 0>> }
\* what may stand in the BPM field (type number) when a form is saved
BpmInputs == {"", "120", "0", "-5"}
\* bpmTarget undefined; a number n is held as <<n>>
NoBpm == <<>>

VARIABLES
  db,            \* the connection: "null" before openDB succeeds, "open" after
  boot,          \* DOMContentLoaded handler: "opening", "loading", "ready", "failed"
  cards,         \* object store `cards`: id -> card record (committed state)
  blobs,         \* object store `blobs`: key -> payload (committed state)
  txq,           \* transactions created on the connection, in creation order
  view,          \* what #main shows: "none", "list", "add", "card", "session"
  listed,        \* ids of the cards rendered in the list view
  memCard,       \* the card object the card / session view closes over
  selectedFile,  \* the module-level selectedFile
  now,           \* Date.now()
  nextId,        \* next card id to be generated
  nextSess,      \* next session id to be generated
  nOps,          \* save/delete calls issued so far
  nDone,         \* save/delete transactions finished so far
  lastDone       \* what the last finished save/delete did

storeVars == <<db, boot, cards, blobs, txq, view, listed, memCard, selectedFile,
               now, nextId, nextSess, nOps, nDone, lastDone>>

\* the card view's <audio> element and its Play Trimmed Section button
VARIABLES
  audio,      \* the media handle: currentTime and paused
  attached,   \* the card view that holds the element is what #main shows
  insts,      \* the accepted Play Trimmed Section clicks, in order: startT, endT
  onTime,     \* the instances whose onTime listener is registered
  tuQueued,   \* a timeupdate event is queued on the element
  ran,        \* the instances whose onTime ran in the step just taken
  pausedBy,   \* the instances whose onTime called pause() in the step just taken
  nClicks,    \* Play Trimmed Section clicks so far
  lastClick   \* the last click: its range and what came of it

playVars == <<audio, attached, insts, onTime, tuQueued, ran, pausedBy, nClicks,
              lastClick>>

\* renderCardList's max tempo line for one card of the list
VARIABLES
  listCard,   \* card.sessions of the card being rendered
  tempoP      \* tempoP: whether it has been rendered and the maxTempo it shows

tempoVars == <<listCard, tempoP>>

\* the repository as its callers see it
VARIABLES
  lastRead,   \* what the last finished getAllCards / getCard / getBlob call returned
  written     \* per id, the record of the last committed save; no entry after a delete

readVars == <<lastRead, written>>

\* two pages of the app open on the same database, each showing the session
\* form of a card
VARIABLES
  copies,     \* per page, the card object its session form closes over
  tabState,   \* per page: "closed", "form", "reloading"
  lastTab     \* the page whose save committed last

tabVars == <<copies, tabState, lastTab>>

\* the card view's Save Changes button as the user sees it
VARIABLES
  lastMeta    \* the last click: how many so far, the trim typed, what came of it

\* the database as indexedDB.open('phrasecards', 1) finds and leaves it
VARIABLES
  version,    \* its version: 0 while it has never been created
  schema      \* its object stores: name -> keyPath

openVars == <<version, schema>>

sideVars == <<tempoVars, readVars, tabVars, openVars, lastMeta>>

(* ------------------------------ records -------------------------------- *)
NoCard ==
  [id |-> 0, createdAt |-> 0, updatedAt |-> 0, audioBlobId |-> NoBlobId,
   trim |-> [startSec |-> 0, endSec |-> 0], bpmTarget |-> NoBpm, sessions |-> <<>>]

NoDone == [kind |-> "none", id |-> 0, blob |-> NoFile, tx |-> "none", promise |-> "none"]

NoClick == [startT |-> 0, endT |-> 0, result |-> "none"]

\* no card view is on screen: no element, no listener
NoPlayback ==
  /\ audio = [currentTime |-> 0, paused |-> TRUE]
  /\ attached = FALSE
  /\ insts = <<>>
  /\ onTime = {}
  /\ tuQueued = FALSE
  /\ ran = {}
  /\ pausedBy = {}
  /\ nClicks = 0
  /\ lastClick = NoClick

\* the pages open on the database besides the one modelled in full
Tabs == {"tabA", "tabB"}

\* no list has been rendered
NoTempoP == [shown |-> FALSE, maxTempo |-> 0]

NoTempo ==
  /\ listCard = <<>>
  /\ tempoP = NoTempoP

\* no read call has returned; result holds what the promise resolved with, as
\* a sequence: empty for undefined
NoRead == [kind |-> "none", id |-> 0, promise |-> "none", result |-> <<>>]

\* no read call has returned and the store holds what was last written to it
NoReads ==
  /\ lastRead = NoRead
  /\ written = cards

\* Save Changes has not been clicked
NoMeta == [n |-> 0, newStart |-> 0, newEnd |-> 0, result |-> "none"]

\* createObjectStore(name) without a keyPath: keys are given with each put
NoKeyPath == "none"

\* the two object stores openDB's upgrade leaves behind
BothStores == [name \in {"cards", "blobs"} |->
                 IF name = "cards" THEN "id" ELSE NoKeyPath]

\* indexedDB holds no database of this name
NeverCreated ==
  /\ version = 0
  /\ schema = <<>>

\* the database exists at version 1 with its two stores
Opened ==
  /\ version = 1
  /\ schema = BothStores

\* no other page is open
NoTabs ==
  /\ copies = [tab \in Tabs |-> NoCard]
  /\ tabState = [tab \in Tabs |-> "closed"]
  /\ lastTab = "none"

\* the card object literal built by the add view's save handler
NewCard(id, startSecVal, endSecVal, bpmTarget, t) ==
  [id |-> id, createdAt |-> t, updatedAt |-> t, audioBlobId |-> NoBlobId,
   trim |-> [startSec |-> startSecVal, endSec |-> endSecVal],
   bpmTarget |-> bpmTarget, sessions |-> <<>>]

\* the session object literal built by the session form's save handler
NewSession(sid, cardId, t) == [id |-> sid, cardId |-> cardId, date |-> t]

(* --------------------------- object stores ----------------------------- *)
\* objectStore.put(value, key) on a committed store image
Put(store, key, value) ==
  [k \in (DOMAIN store) \cup {key} |-> IF k = key THEN value ELSE store[k]]

\* objectStore.delete(key): removing an absent key is not an error
Delete(store, key) == [k \in (DOMAIN store) \ {key} |-> store[k]]

\* objectStore.get(key), as the callers test it: present or undefined
Has(store, key) == key \in DOMAIN store

(* ------------------------- repository calls ---------------------------- *)
\* saveCard without card.audioBlobId = blobKey
SaveCardObject_NoBlobId(card, blob, t) == [card EXCEPT !.updatedAt = t]

\* saveCard without card.updatedAt = Date.now()
SaveCardObject_NoUpdatedAt(card, blob, t) ==
  [card EXCEPT !.audioBlobId = IF blob # NoFile THEN card.id ELSE @]

\* saveCard's writes to the card object it was handed: audioBlobId when a blob
\* is supplied, updatedAt always
SaveCardObject(card, blob, t) ==
  [card EXCEPT !.audioBlobId = IF blob # NoFile THEN card.id ELSE @,
               !.updatedAt = t]

\* the readwrite transaction saveCard creates; put() clones the card as it is
\* at the call.  arg and t0 record the card as passed and the clock before it
SaveTx(card, blob, cont, t) ==
  [kind |-> "save", id |-> card.id, card |-> SaveCardObject(card, blob, t),
   blob |-> blob, cont |-> cont, arg |-> card, t0 |-> now]

\* the readwrite transaction deleteCard creates
DeleteTx(id, cont) ==
  [kind |-> "delete", id |-> id, card |-> NoCard, blob |-> NoFile,
   cont |-> cont, arg |-> NoCard, t0 |-> 0]

\* the readonly transactions of getAllCards, getCard and getBlob
ReadTx(kind, id, card, cont) ==
  [kind |-> kind, id |-> id, card |-> card, blob |-> NoFile,
   cont |-> cont, arg |-> NoCard, t0 |-> 0]

\* a save without a blob that clears the payload stored for the card
BlobsAfterSave_NullClears(bs, tx) ==
  IF tx.blob # NoFile THEN Put(bs, tx.id, tx.blob) ELSE Delete(bs, tx.id)

\* a save that keeps the sessions stored for the card and adds the new ones
CardsAfterSave_Merge(cs, tx) ==
  IF Has(cs, tx.id)
  THEN Put(cs, tx.id,
           [tx.card EXCEPT !.sessions =
              cs[tx.id].sessions \o
              SelectSeq(tx.card.sessions,
                        LAMBDA x : \A i \in 1..Len(cs[tx.id].sessions) :
                                     cs[tx.id].sessions[i] # x)])
  ELSE Put(cs, tx.id, tx.card)

\* the two stores once a save transaction has committed
CardsAfterSave(cs, tx) == Put(cs, tx.card.id, tx.card)
BlobsAfterSave(bs, tx) == IF tx.blob # NoFile THEN Put(bs, tx.id, tx.blob) ELSE bs

\* deleteCard without cardStore.delete(id)
CardsAfterDelete_Kept(cs, tx) == cs
\* deleteCard without blobStore.delete(id)
BlobsAfterDelete_Kept(bs, tx) == bs

\* the two stores once a delete transaction has committed
CardsAfterDelete(cs, tx) == Delete(cs, tx.id)
BlobsAfterDelete(bs, tx) == Delete(bs, tx.id)

\* the blob put in a transaction of its own, which an abort of the card's
\* transaction does not undo
BlobsAfterAbort_Partial(bs, tx) == BlobsAfterSave(bs, tx)

\* the two stores once a readwrite transaction over both has aborted
CardsAfterAbort(cs, tx) == cs
BlobsAfterAbort(bs, tx) == bs

\* tx.oncomplete = () => resolve()
OnComplete == "resolved"
\* tx.onerror = () => reject(tx.error): runs when a request's error event
\* bubbles to the transaction
OnError == "rejected"
\* the transaction's abort event: saveCard and deleteCard set no handler
OnAbort == "pending"

\* the record of the last committed save per id, after a save of card commits
Recorded(w, card) ==
  [k \in (DOMAIN w) \cup {card.id} |-> IF k = card.id THEN card ELSE w[k]]

\* the same after a delete of id commits
Forgotten(w, id) == [k \in {j \in DOMAIN w : j # id} |-> w[k]]

\* a get request that fails when no record is stored under the key
GetResolves_NotFoundRejects(store, key) ==
  IF Has(store, key) THEN [promise |-> "resolved", result |-> <<store[key]>>]
  ELSE [promise |-> "rejected", result |-> <<>>]

\* store.get(key), req.onsuccess = () => resolve(req.result): the request
\* succeeds with undefined when no record is stored under the key
GetResolves(store, key) ==
  [promise |-> "resolved",
   result |-> IF Has(store, key) THEN <<store[key]>> ELSE <<>>]

RECURSIVE InKeyOrder(_, _)
\* the records of a store under the keys ks, in ascending key order
InKeyOrder(store, ks) ==
  IF ks = {} THEN <<>>
  ELSE LET lo == CHOOSE k \in ks : \A j \in ks : k <= j
       IN <<store[lo]>> \o InKeyOrder(store, ks \ {lo})

\* getAll with every record but the first dropped
GetAllResolves_First(store) ==
  [promise |-> "resolved",
   result |-> IF DOMAIN store = {} THEN <<>>
              ELSE <<store[CHOOSE k \in DOMAIN store : \A j \in DOMAIN store : k <= j]>>]

\* store.getAll(), req.onsuccess = () => resolve(req.result || [])
GetAllResolves(store) ==
  [promise |-> "resolved", result |-> InKeyOrder(store, DOMAIN store)]

(* ------------------------------ sorting -------------------------------- *)
RECURSIVE InsertByDateDesc(_, _)
\* x placed behind every element whose date is not smaller
InsertByDateDesc(x, s) ==
  IF s = <<>> THEN <<x>>
  ELSE IF Head(s).date >= x.date THEN <<Head(s)>> \o InsertByDateDesc(x, Tail(s))
  ELSE <<x>> \o s

RECURSIVE SortByDateDesc(_)
\* card.sessions.sort((a,b) => (b.date || 0) - (a.date || 0)), a stable sort
SortByDateDesc(s) ==
  IF s = <<>> THEN <<>>
  ELSE InsertByDateDesc(s[Len(s)], SortByDateDesc(SubSeq(s, 1, Len(s) - 1)))

(* --------------------------- initial state ----------------------------- *)
\* The database outlives the page: a launch finds what earlier launches
\* committed, here nothing or one card saved from the add view with its file.
StoredAtLaunch ==
  { [cards |-> <<>>, blobs |-> <<>>, nextId |-> 1],
    [cards |-> Put(<<>>, 1, SaveCardObject(NewCard(1, 0, 1, NoBpm, 0), "f1", 0)),
     blobs |-> Put(<<>>, 1, "f1"), nextId |-> 2] }

Init ==
  /\ db = "null"
  /\ boot = "opening"
  /\ \E st \in StoredAtLaunch :
       /\ cards = st.cards
       /\ blobs = st.blobs
       /\ nextId = st.nextId
  /\ txq = <<>>
  /\ view = "none"
  /\ listed = {}
  /\ memCard = NoCard
  /\ selectedFile = NoFile
  /\ now = 0
  /\ nextSess = 1
  /\ nOps = 0
  /\ nDone = 0
  /\ lastDone = NoDone
  /\ NoPlayback
  /\ NoTempo
  /\ NoReads
  /\ lastMeta = NoMeta
  /\ \/ Opened
     \/ NeverCreated /\ cards = <<>>
  /\ NoTabs

(* ------------------------------- clock --------------------------------- *)
\* the values Date.now() may return to a handler, given the last value read
DateNow == {t \in Times : now <= t /\ t <= now + 1}

(* ------------------------------ start-up ------------------------------- *)
\* request.onupgradeneeded creating the cards store only
OnUpgradeNeeded_CardsOnly(stores) ==
  IF "cards" \notin DOMAIN stores THEN Put(stores, "cards", "id") ELSE stores

\* request.onupgradeneeded: each store is created unless objectStoreNames
\* contains its name
OnUpgradeNeeded(stores) ==
  LET withCards == IF "cards" \notin DOMAIN stores
                   THEN Put(stores, "cards", "id") ELSE stores
  IN IF "blobs" \notin DOMAIN withCards
     THEN Put(withCards, "blobs", NoKeyPath) ELSE withCards

\* openDB's request.onsuccess, after onupgradeneeded when the database is
\* below version 1, then loadCards() of the DOMContentLoaded handler
OpenDBSuccess ==
  /\ boot = "opening"
  /\ db' = "open"
  /\ boot' = "loading"
  /\ version' = 1
  /\ schema' = IF version < 1 THEN OnUpgradeNeeded(schema) ELSE schema
  /\ txq' = Append(txq, ReadTx("getAll", 0, NoCard, "boot"))
  /\ UNCHANGED <<tempoVars, readVars, tabVars, lastMeta, playVars, cards, blobs, view,
                 listed, memCard, selectedFile, now, nextId, nextSess, nOps, nDone,
                 lastDone>>

\* openDB's request.onerror with the rejection caught: the handler goes on to
\* loadCards() with db still null
OpenDBError_GoesOn ==
  /\ boot = "opening"
  /\ boot' = "loading"
  /\ txq' = Append(txq, ReadTx("getAll", 0, NoCard, "boot"))
  /\ UNCHANGED <<sideVars, playVars, db, cards, blobs, view, listed, memCard,
                 selectedFile, now, nextId, nextSess, nOps, nDone, lastDone>>

\* openDB's request.onerror: the handler's await throws and nothing follows
OpenDBError ==
  /\ boot = "opening"
  /\ boot' = "failed"
  /\ UNCHANGED <<sideVars, playVars, db, cards, blobs, txq, view, listed, memCard, selectedFile,
                 now, nextId, nextSess, nOps, nDone, lastDone>>

(* ---------------------------- UI handlers ------------------------------ *)
\* loadCards(): getAllCards() is issued; the list is rendered when it returns
LoadCards(q, cont) == Append(q, ReadTx("getAll", 0, NoCard, cont))

\* viewCard(id): getCard(id) is issued first
ViewCard(q, id) == Append(q, ReadTx("getCard", id, NoCard, "view"))

\* the trim check of the add view's save handler
AddTrimInvalid(startSecVal, endSecVal) ==
  startSecVal < 0 \/ endSecVal <= 0 \/ endSecVal <= startSecVal

\* the trim check with < for <=
MetaTrimInvalid_Strict(newStart, newEnd) == newEnd < newStart

\* the trim check of the card view's Save Changes handler
MetaTrimInvalid(newStart, newEnd) == newEnd <= newStart

\* parseInt(value, 10) of the texts the BPM field may hold
ParseInt(value) ==
  CASE value = "120" -> 120
    [] value = "0" -> 0
    [] value = "-5" -> 0 - 5

\* the add view: bpmInput.value ? parseInt(bpmInput.value, 10) : null, stored
\* as bpmTarget || undefined
AddBpmTarget(value) ==
  IF value = "" THEN NoBpm
  ELSE IF ParseInt(value) = 0 THEN NoBpm
  ELSE <<ParseInt(value)>>

\* the card view: bpmEdit.value ? parseInt(bpmEdit.value, 10) : undefined
MetaBpmTarget(value) == IF value = "" THEN NoBpm ELSE <<ParseInt(value)>>

\* addBtn click: showAddView()
ClickAddCard ==
  /\ boot = "ready"
  /\ view' = "add"
  /\ selectedFile' = NoFile
  /\ memCard' = NoCard
  /\ UNCHANGED <<sideVars, playVars, db, boot, cards, blobs, txq, listed, now, nextId, nextSess,
                 nOps, nDone, lastDone>>

\* fileInput change
ChooseFile(p) ==
  /\ view = "add"
  /\ selectedFile # p
  /\ selectedFile' = p
  /\ UNCHANGED <<sideVars, playVars, db, boot, cards, blobs, txq, view, listed, memCard, now,
                 nextId, nextSess, nOps, nDone, lastDone>>

\* add view, Save click
ClickSaveNew(startSecVal, endSecVal, bpmValue, t) ==
  /\ view = "add"
  /\ t \in DateNow
  /\ nextId <= MaxCards
  /\ nOps < MaxOps
  /\ Len(txq) < MaxQueue
  /\ IF selectedFile = NoFile \/ AddTrimInvalid(startSecVal, endSecVal)
     THEN UNCHANGED <<txq, nextId, nOps, now>>
     ELSE /\ txq' = Append(txq, SaveTx(NewCard(nextId, startSecVal, endSecVal,
                                               AddBpmTarget(bpmValue), t),
                                       selectedFile, "create", t))
          /\ nextId' = nextId + 1
          /\ nOps' = nOps + 1
          /\ now' = t
  /\ UNCHANGED <<sideVars, playVars, db, boot, cards, blobs, view, listed, memCard, selectedFile,
                 nextSess, nDone, lastDone>>

\* add view, Cancel click
ClickCancelAdd ==
  /\ view = "add"
  /\ Len(txq) < MaxQueue
  /\ selectedFile' = NoFile
  /\ txq' = LoadCards(txq, "list")
  /\ UNCHANGED <<sideVars, playVars, db, boot, cards, blobs, view, listed, memCard, now, nextId,
                 nextSess, nOps, nDone, lastDone>>

\* list view, click on a card title
ClickTitle(id) ==
  /\ view = "list"
  /\ id \in listed
  /\ Len(txq) < MaxQueue
  /\ txq' = ViewCard(txq, id)
  /\ UNCHANGED <<sideVars, playVars, db, boot, cards, blobs, view, listed, memCard, selectedFile,
                 now, nextId, nextSess, nOps, nDone, lastDone>>

\* card view, Delete click (confirmed)
ClickDelete ==
  /\ view = "card"
  /\ nOps < MaxOps
  /\ Len(txq) < MaxQueue
  /\ txq' = Append(txq, DeleteTx(memCard.id, "del"))
  /\ nOps' = nOps + 1
  /\ UNCHANGED <<sideVars, playVars, db, boot, cards, blobs, view, listed, memCard, selectedFile,
                 now, nextId, nextSess, nDone, lastDone>>

\* card view, Save Changes click
ClickSaveMeta(newStart, newEnd, bpmValue, t) ==
  /\ view = "card"
  /\ t \in DateNow
  /\ nOps < MaxOps
  /\ Len(txq) < MaxQueue
  /\ IF MetaTrimInvalid(newStart, newEnd)
     THEN UNCHANGED <<txq, memCard, nOps, now>>
     ELSE LET edited == [memCard EXCEPT
                           !.bpmTarget = MetaBpmTarget(bpmValue),
                           !.trim = [startSec |-> newStart, endSec |-> newEnd]]
          IN /\ txq' = Append(txq, SaveTx(edited, NoFile, "meta", t))
             /\ memCard' = SaveCardObject(edited, NoFile, t)
             /\ nOps' = nOps + 1
             /\ now' = t
  /\ UNCHANGED <<tempoVars, readVars, tabVars, openVars, playVars, db, boot, cards,
                 blobs, view, listed, selectedFile, nextId, nextSess, nDone, lastDone>>

\* card view, Add Session click: showAddSessionForm(card)
ClickAddSession ==
  /\ view = "card"
  /\ view' = "session"
  /\ UNCHANGED <<sideVars, playVars, db, boot, cards, blobs, txq, listed, memCard, selectedFile,
                 now, nextId, nextSess, nOps, nDone, lastDone>>

\* card.sessions.unshift(session)
PushSession_Front(card, session) == [card EXCEPT !.sessions = <<session>> \o @]

\* card.sessions.push(session)
PushSession(card, session) == [card EXCEPT !.sessions = Append(@, session)]

\* session form, Save Session click
ClickSaveSession(t) ==
  /\ view = "session"
  /\ t \in DateNow
  /\ nOps < MaxOps
  /\ Len(txq) < MaxQueue
  /\ LET pushed == PushSession(memCard, NewSession(nextSess, memCard.id, t))
     IN /\ txq' = Append(txq, SaveTx(pushed, NoFile, "session", t))
        /\ memCard' = SaveCardObject(pushed, NoFile, t)
  /\ now' = t
  /\ nextSess' = nextSess + 1
  /\ nOps' = nOps + 1
  /\ UNCHANGED <<sideVars, playVars, db, boot, cards, blobs, view, listed, selectedFile,
                 nextId, nDone, lastDone>>

\* session form, Cancel click
ClickCancelSession ==
  /\ view = "session"
  /\ Len(txq) < MaxQueue
  /\ txq' = ViewCard(txq, memCard.id)
  /\ UNCHANGED <<sideVars, playVars, db, boot, cards, blobs, view, listed, memCard, selectedFile,
                 now, nextId, nextSess, nOps, nDone, lastDone>>

(* ----------------------- transaction completion ------------------------ *)
\* what a finished save/delete call did, for the properties below
Done(tx, txState, promise) ==
  [kind |-> tx.kind, id |-> tx.id, blob |-> tx.blob, tx |-> txState,
   promise |-> promise]

\* what the awaiting caller issues once saveCard's promise resolves: the add
\* view reloads the list, the card view and the session form reopen the card
AfterSave(q, tx) ==
  IF tx.cont = "create" THEN LoadCards(q, "list")
  ELSE IF tx.cont \in {"meta", "session"} THEN ViewCard(q, tx.id)
  ELSE IF tx.cont \in Tabs THEN Append(q, ReadTx("getCard", tx.id, NoCard, tx.cont))
  ELSE q

\* what the awaiting caller issues once deleteCard's promise resolves: the
\* card view reloads the list
AfterDelete(q, tx) == IF tx.cont = "del" THEN LoadCards(q, "list") ELSE q

\* a save transaction commits: complete event, resolve(), the handler goes on
TxSaveComplete ==
  /\ txq # <<>>
  /\ Head(txq).kind = "save"
  /\ LET tx == Head(txq)
     IN /\ cards' = CardsAfterSave(cards, tx)
        /\ blobs' = BlobsAfterSave(blobs, tx)
        /\ lastDone' = Done(tx, "committed", OnComplete)
        /\ txq' = AfterSave(Tail(txq), tx)
        /\ selectedFile' = IF tx.cont = "create" THEN NoFile ELSE selectedFile
        /\ written' = Recorded(written, tx.card)
        /\ lastTab' = IF tx.cont \in Tabs THEN tx.cont ELSE lastTab
  /\ nDone' = nDone + 1
  /\ UNCHANGED <<openVars, lastMeta, tempoVars, lastRead, copies, tabState, playVars, db, boot, view, listed,
                 memCard, now, nextId, nextSess, nOps>>

\* a put request of a save fails: its error event reaches tx.onerror, the
\* transaction aborts, the handler's catch shows an alert
TxSaveRequestError ==
  /\ txq # <<>>
  /\ Head(txq).kind = "save"
  /\ LET tx == Head(txq)
     IN /\ cards' = CardsAfterAbort(cards, tx)
        /\ blobs' = BlobsAfterAbort(blobs, tx)
        /\ lastDone' = Done(tx, "aborted", OnError)
  /\ txq' = Tail(txq)
  /\ nDone' = nDone + 1
  /\ UNCHANGED <<sideVars, playVars, db, boot, view, listed, memCard, selectedFile, now, nextId,
                 nextSess, nOps>>

\* every request of a save succeeded and the commit itself fails: the
\* transaction gets an abort event and no error event
TxSaveCommitAbort ==
  /\ txq # <<>>
  /\ Head(txq).kind = "save"
  /\ LET tx == Head(txq)
     IN /\ cards' = CardsAfterAbort(cards, tx)
        /\ blobs' = BlobsAfterAbort(blobs, tx)
        /\ lastDone' = Done(tx, "aborted", OnAbort)
  /\ txq' = Tail(txq)
  /\ nDone' = nDone + 1
  /\ UNCHANGED <<sideVars, playVars, db, boot, view, listed, memCard, selectedFile, now, nextId,
                 nextSess, nOps>>

\* a delete transaction commits: resolve(), then loadCards() of the handler
TxDeleteComplete ==
  /\ txq # <<>>
  /\ Head(txq).kind = "delete"
  /\ LET tx == Head(txq)
     IN /\ cards' = CardsAfterDelete(cards, tx)
        /\ blobs' = BlobsAfterDelete(blobs, tx)
        /\ lastDone' = Done(tx, "committed", OnComplete)
        /\ written' = Forgotten(written, tx.id)
  /\ txq' = AfterDelete(Tail(txq), Head(txq))
  /\ nDone' = nDone + 1
  /\ UNCHANGED <<openVars, lastMeta, tempoVars, lastRead, tabVars, playVars, db, boot, view, listed, memCard,
                 selectedFile, now, nextId, nextSess, nOps>>

\* a delete request fails: tx.onerror rejects, the transaction aborts
TxDeleteRequestError ==
  /\ txq # <<>>
  /\ Head(txq).kind = "delete"
  /\ LET tx == Head(txq)
     IN /\ cards' = CardsAfterAbort(cards, tx)
        /\ blobs' = BlobsAfterAbort(blobs, tx)
        /\ lastDone' = Done(tx, "aborted", OnError)
  /\ txq' = Tail(txq)
  /\ nDone' = nDone + 1
  /\ UNCHANGED <<sideVars, playVars, db, boot, view, listed, memCard, selectedFile, now, nextId,
                 nextSess, nOps>>

\* the commit of a delete fails: abort event only
TxDeleteCommitAbort ==
  /\ txq # <<>>
  /\ Head(txq).kind = "delete"
  /\ LET tx == Head(txq)
     IN /\ cards' = CardsAfterAbort(cards, tx)
        /\ blobs' = BlobsAfterAbort(blobs, tx)
        /\ lastDone' = Done(tx, "aborted", OnAbort)
  /\ txq' = Tail(txq)
  /\ nDone' = nDone + 1
  /\ UNCHANGED <<sideVars, playVars, db, boot, view, listed, memCard, selectedFile, now, nextId,
                 nextSess, nOps>>

\* getAllCards returns: renderCardList(cards); at start-up the handler then
\* attaches the Add New Card listener
TxGetAllDone ==
  /\ txq # <<>>
  /\ Head(txq).kind = "getAll"
  /\ view' = "list"
  /\ listed' = DOMAIN cards
  /\ memCard' = NoCard
  /\ boot' = IF Head(txq).cont = "boot" THEN "ready" ELSE boot
  /\ txq' = Tail(txq)
  /\ UNCHANGED <<sideVars, playVars, db, cards, blobs, selectedFile, now, nextId, nextSess, nOps,
                 nDone, lastDone>>

\* getCard returns inside viewCard: no card falls back to loadCards(),
\* a card goes on to getBlob(card.audioBlobId)
TxGetCardDone ==
  /\ txq # <<>>
  /\ Head(txq).kind = "getCard"
  /\ LET id == Head(txq).id
     IN txq' = IF Has(cards, id)
               THEN Append(Tail(txq),
                           ReadTx("getBlob", cards[id].audioBlobId, cards[id], "view"))
               ELSE LoadCards(Tail(txq), "list")
  /\ UNCHANGED <<sideVars, playVars, db, boot, cards, blobs, view, listed, memCard, selectedFile,
                 now, nextId, nextSess, nOps, nDone, lastDone>>

\* getBlob returns inside viewCard: the card view is built around the card
\* object, whose sessions the rendering sorts in place
TxGetBlobDone ==
  /\ txq # <<>>
  /\ Head(txq).kind = "getBlob"
  /\ view' = "card"
  /\ memCard' = [Head(txq).card EXCEPT !.sessions = SortByDateDesc(@)]
  /\ txq' = Tail(txq)
  /\ UNCHANGED <<sideVars, playVars, db, boot, cards, blobs, listed, selectedFile, now, nextId,
                 nextSess, nOps, nDone, lastDone>>

StoreNext ==
  \/ OpenDBSuccess
  \/ OpenDBError
  \/ ClickAddCard
  \/ \E p \in Payloads : ChooseFile(p)
  \/ \E tr \in TrimInputs, v \in BpmInputs, t \in Times :
       ClickSaveNew(tr[1], tr[2], v, t)
  \/ ClickCancelAdd
  \/ \E id \in Ids : ClickTitle(id)
  \/ ClickDelete
  \/ \E tr \in TrimInputs, v \in BpmInputs, t \in Times :
       ClickSaveMeta(tr[1], tr[2], v, t) /\ UNCHANGED lastMeta
  \/ ClickAddSession
  \/ \E t \in Times : ClickSaveSession(t)
  \/ ClickCancelSession
  \/ TxSaveComplete
  \/ TxSaveRequestError
  \/ TxSaveCommitAbort
  \/ TxDeleteComplete
  \/ TxDeleteRequestError
  \/ TxDeleteCommitAbort
  \/ TxGetAllDone
  \/ TxGetCardDone
  \/ TxGetBlobDone

vars == <<storeVars, playVars, sideVars>>

Next == StoreNext

\* the application: start-up, the UI handlers and the transactions they issue
Spec == Init /\ [][Next]_vars

(* ------------------- the repository called directly -------------------- *)
\* card objects a caller may hand to saveCard
CallCards ==
  { [id |-> i, createdAt |-> 0, updatedAt |-> 0, audioBlobId |-> a,
     trim |-> [startSec |-> 0, endSec |-> 1], bpmTarget |-> NoBpm,
     sessions |-> <<>>] :
      i \in Ids, a \in {NoBlobId} \cup Ids }

\* saveCard(card, blob) called on the open connection
CallSaveCard(card, blob, t) ==
  /\ db = "open"
  /\ t \in DateNow
  /\ card.audioBlobId \in {NoBlobId, card.id}
  /\ nOps < MaxOps
  /\ Len(txq) < MaxQueue
  /\ txq' = Append(txq, SaveTx(card, blob, "call", t))
  /\ now' = t
  /\ nOps' = nOps + 1
  /\ UNCHANGED <<sideVars, playVars, db, boot, cards, blobs, view, listed, memCard, selectedFile,
                 nextId, nextSess, nDone, lastDone>>

\* deleteCard(id) called on the open connection
CallDeleteCard(id) ==
  /\ db = "open"
  /\ nOps < MaxOps
  /\ Len(txq) < MaxQueue
  /\ txq' = Append(txq, DeleteTx(id, "call"))
  /\ nOps' = nOps + 1
  /\ UNCHANGED <<sideVars, playVars, db, boot, cards, blobs, view, listed, memCard, selectedFile,
                 now, nextId, nextSess, nDone, lastDone>>

\* the connection is open and holds what earlier launches committed
RepoInit ==
  /\ db = "open"
  /\ boot = "ready"
  /\ \E st \in StoredAtLaunch :
       /\ cards = st.cards
       /\ blobs = st.blobs
       /\ nextId = st.nextId
  /\ txq = <<>>
  /\ view = "none"
  /\ listed = {}
  /\ memCard = NoCard
  /\ selectedFile = NoFile
  /\ now = 0
  /\ nextSess = 1
  /\ nOps = 0
  /\ nDone = 0
  /\ lastDone = NoDone
  /\ NoPlayback
  /\ NoTempo
  /\ NoReads
  /\ lastMeta = NoMeta
  /\ Opened
  /\ NoTabs

RepoNext ==
  \/ \E c \in CallCards, b \in Payloads \cup {NoFile}, t \in Times :
       CallSaveCard(c, b, t)
  \/ \E id \in Ids : CallDeleteCard(id)
  \/ TxSaveComplete
  \/ TxSaveRequestError
  \/ TxSaveCommitAbort
  \/ TxDeleteComplete
  \/ TxDeleteRequestError
  \/ TxDeleteCommitAbort

\* saveCard and deleteCard under every order of calls and completions
RepoSpec == RepoInit /\ [][RepoNext]_vars

(* --------------- the repository's reads called directly ---------------- *)
\* what a finished read call returned
Read(kind, id, r) ==
  [kind |-> kind, id |-> id, promise |-> r.promise, result |-> r.result]

\* getCard(id) called on the open connection
CallGetCard(id) ==
  /\ db = "open"
  /\ Len(txq) < MaxQueue
  /\ txq' = Append(txq, ReadTx("getCard", id, NoCard, "call"))
  /\ UNCHANGED <<sideVars, playVars, db, boot, cards, blobs, view, listed, memCard,
                 selectedFile, now, nextId, nextSess, nOps, nDone, lastDone>>

\* getBlob(id) called on the open connection
CallGetBlob(id) ==
  /\ db = "open"
  /\ Len(txq) < MaxQueue
  /\ txq' = Append(txq, ReadTx("getBlob", id, NoCard, "call"))
  /\ UNCHANGED <<sideVars, playVars, db, boot, cards, blobs, view, listed, memCard,
                 selectedFile, now, nextId, nextSess, nOps, nDone, lastDone>>

\* getAllCards() called on the open connection
CallGetAll ==
  /\ db = "open"
  /\ Len(txq) < MaxQueue
  /\ txq' = Append(txq, ReadTx("getAll", 0, NoCard, "call"))
  /\ UNCHANGED <<sideVars, playVars, db, boot, cards, blobs, view, listed, memCard,
                 selectedFile, now, nextId, nextSess, nOps, nDone, lastDone>>

\* the get request of a getCard call succeeds
GetCardReturns ==
  /\ txq # <<>>
  /\ Head(txq).kind = "getCard"
  /\ Head(txq).cont = "call"
  /\ lastRead' = Read("getCard", Head(txq).id, GetResolves(cards, Head(txq).id))
  /\ txq' = Tail(txq)
  /\ UNCHANGED <<openVars, lastMeta, tempoVars, written, tabVars, playVars, db, boot, cards, blobs, view,
                 listed, memCard, selectedFile, now, nextId, nextSess, nOps, nDone,
                 lastDone>>

\* the get request of a getBlob call succeeds
GetBlobReturns ==
  /\ txq # <<>>
  /\ Head(txq).kind = "getBlob"
  /\ Head(txq).cont = "call"
  /\ lastRead' = Read("getBlob", Head(txq).id, GetResolves(blobs, Head(txq).id))
  /\ txq' = Tail(txq)
  /\ UNCHANGED <<openVars, lastMeta, tempoVars, written, tabVars, playVars, db, boot, cards, blobs, view,
                 listed, memCard, selectedFile, now, nextId, nextSess, nOps, nDone,
                 lastDone>>

\* the getAll request of a getAllCards call succeeds
GetAllReturns ==
  /\ txq # <<>>
  /\ Head(txq).kind = "getAll"
  /\ Head(txq).cont = "call"
  /\ lastRead' = Read("getAll", 0, GetAllResolves(cards))
  /\ txq' = Tail(txq)
  /\ UNCHANGED <<openVars, lastMeta, tempoVars, written, tabVars, playVars, db, boot, cards, blobs, view,
                 listed, memCard, selectedFile, now, nextId, nextSess, nOps, nDone,
                 lastDone>>

ReadNext ==
  \/ RepoNext
  \/ \E id \in Ids : CallGetCard(id)
  \/ \E id \in Ids : CallGetBlob(id)
  \/ CallGetAll
  \/ GetCardReturns
  \/ GetBlobReturns
  \/ GetAllReturns

\* saves, deletes and reads under every order of calls and completions
ReadSpec == RepoInit /\ [][ReadNext]_vars

(* ------------------- two pages on the same database ------------------- *)
\* a page's card view, Add Session click: showAddSessionForm(card)
TabAddSession(tab) ==
  /\ tabState[tab] = "card"
  /\ tabState' = [tabState EXCEPT ![tab] = "form"]
  /\ UNCHANGED <<openVars, lastMeta, storeVars, playVars, tempoVars, readVars, copies, lastTab>>

\* a page's session form, Save Session click
TabSaveSession(tab, t) ==
  /\ tabState[tab] = "form"
  /\ t \in DateNow
  /\ nOps < MaxOps
  /\ Len(txq) < MaxQueue
  /\ LET pushed == PushSession(copies[tab], NewSession(nextSess, copies[tab].id, t))
     IN /\ txq' = Append(txq, SaveTx(pushed, NoFile, tab, t))
        /\ copies' = [copies EXCEPT ![tab] = SaveCardObject(pushed, NoFile, t)]
  /\ now' = t
  /\ nextSess' = nextSess + 1
  /\ nOps' = nOps + 1
  /\ UNCHANGED <<openVars, lastMeta, playVars, tempoVars, readVars, tabState, lastTab, db, boot, cards,
                 blobs, view, listed, memCard, selectedFile, nextId, nDone, lastDone>>

\* a read issued by a page's viewCard returns: getCard goes on to getBlob, or
\* to loadCards() when no card is stored; getBlob renders the card view around
\* the card just read; getAllCards renders the list
TabReadDone ==
  /\ txq # <<>>
  /\ Head(txq).cont \in Tabs
  /\ Head(txq).kind \in {"getCard", "getBlob", "getAll"}
  /\ LET tx == Head(txq)
         tab == tx.cont
     IN CASE tx.kind = "getCard" ->
               /\ txq' = IF Has(cards, tx.id)
                         THEN Append(Tail(txq),
                                     ReadTx("getBlob", cards[tx.id].audioBlobId,
                                            cards[tx.id], tab))
                         ELSE LoadCards(Tail(txq), tab)
               /\ UNCHANGED <<copies, tabState>>
          [] tx.kind = "getBlob" ->
               /\ txq' = Tail(txq)
               /\ copies' = [copies EXCEPT
                               ![tab] = [tx.card EXCEPT !.sessions = SortByDateDesc(@)]]
               /\ tabState' = [tabState EXCEPT ![tab] = "card"]
          [] tx.kind = "getAll" ->
               /\ txq' = Tail(txq)
               /\ copies' = [copies EXCEPT ![tab] = NoCard]
               /\ tabState' = [tabState EXCEPT ![tab] = "closed"]
  /\ UNCHANGED <<openVars, lastMeta, playVars, tempoVars, readVars, lastTab, db, boot, cards, blobs, view,
                 listed, memCard, selectedFile, now, nextId, nextSess, nOps, nDone,
                 lastDone>>

\* each page shows the card view of the one stored card
TabInit ==
  /\ db = "open"
  /\ boot = "ready"
  /\ cards = Put(<<>>, 1, SaveCardObject(NewCard(1, 0, 1, NoBpm, 0), "f1", 0))
  /\ blobs = Put(<<>>, 1, "f1")
  /\ nextId = 2
  /\ txq = <<>>
  /\ view = "none"
  /\ listed = {}
  /\ memCard = NoCard
  /\ selectedFile = NoFile
  /\ now = 0
  /\ nextSess = 1
  /\ nOps = 0
  /\ nDone = 0
  /\ lastDone = NoDone
  /\ NoPlayback
  /\ NoTempo
  /\ NoReads
  /\ lastMeta = NoMeta
  /\ Opened
  /\ copies = [tab \in Tabs |-> cards[1]]
  /\ tabState = [tab \in Tabs |-> "card"]
  /\ lastTab = "none"

TabNext ==
  \/ \E tab \in Tabs : TabAddSession(tab)
  \/ \E tab \in Tabs, t \in Times : TabSaveSession(tab, t)
  \/ TabReadDone
  \/ TxSaveComplete
  \/ TxSaveRequestError
  \/ TxSaveCommitAbort

\* the session forms of two pages saving to the same card
TabSpec == TabInit /\ [][TabNext]_vars

(* ------------------- one card view and its session form --------------- *)
\* the sessions an earlier launch may have stored for the card: none, or two
\* appended one after the other at different times
SessionsAtLaunch == { <<>>, <<NewSession(1, 1, 0), NewSession(2, 1, 1)>> }

\* the card as the save that stored the last of those sessions left it
CardAtLaunch(ss) ==
  [SaveCardObject(NewCard(1, 0, 1, NoBpm, 0), "f1", 0) EXCEPT
     !.sessions = ss,
     !.updatedAt = IF ss = <<>> THEN 0 ELSE ss[Len(ss)].date]

\* Save Changes click, with what the user typed and saw noted
MetaClick(newStart, newEnd, bpmValue, t) ==
  /\ lastMeta.n < MaxMetaClicks
  /\ ClickSaveMeta(newStart, newEnd, bpmValue, t)
  /\ lastMeta' = [n |-> lastMeta.n + 1, newStart |-> newStart, newEnd |-> newEnd,
                  result |-> IF txq' = txq THEN "alert" ELSE "saved"]

\* viewCard has just rendered the card view of the one stored card
CardViewInit ==
  /\ db = "open"
  /\ boot = "ready"
  /\ \E ss \in SessionsAtLaunch :
       /\ cards = Put(<<>>, 1, CardAtLaunch(ss))
       /\ memCard = [CardAtLaunch(ss) EXCEPT !.sessions = SortByDateDesc(@)]
       /\ nextSess = Len(ss) + 1
       /\ now = CardAtLaunch(ss).updatedAt
  /\ blobs = Put(<<>>, 1, "f1")
  /\ nextId = 2
  /\ txq = <<>>
  /\ view = "card"
  /\ listed = {1}
  /\ selectedFile = NoFile
  /\ nOps = 0
  /\ nDone = 0
  /\ lastDone = NoDone
  /\ NoPlayback
  /\ NoTempo
  /\ NoReads
  /\ lastMeta = NoMeta
  /\ Opened
  /\ NoTabs

CardViewNext ==
  \/ \E tr \in TrimInputs, v \in BpmInputs, t \in Times : MetaClick(tr[1], tr[2], v, t)
  \/ ClickAddSession
  \/ \E t \in Times : ClickSaveSession(t)
  \/ ClickCancelSession
  \/ TxSaveComplete
  \/ TxSaveRequestError
  \/ TxSaveCommitAbort
  \/ TxGetCardDone
  \/ TxGetBlobDone

\* metadata edits and session appends from one card's view
CardViewSpec == CardViewInit /\ [][CardViewNext]_vars

(* ------------------ playback of the trimmed section -------------------- *)
\* the media's duration: the playhead never passes it
Duration == MaxSec
Positions == 0..Duration
\* values parseFloat(input.value) || 0 yields for the start and end fields
PlayInputs == 0..(MaxSec + 1)

\* the range check with < for <=
PlayRangeInvalid_Strict(startT, endT) == endT < startT

\* the range check of the Play Trimmed Section handler
PlayRangeInvalid(startT, endT) == endT <= startT

\* the position test with > for >=
OnTimeFires_Strict(pos, endT) == pos > endT

\* the test onTime makes on the position it reads
OnTimeFires(pos, endT) == pos >= endT

\* audio.currentTime = startT: the element keeps the playhead inside the media
SeekTo(startT) == IF startT > Duration THEN Duration ELSE startT

\* the instances whose onTime, run at position pos, pauses and removes itself
Pausers(pos) == {i \in onTime : OnTimeFires(pos, insts[i].endT)}

\* a timeupdate event dispatched with the playhead at pos: every registered
\* onTime runs; pause() on a playing element queues a further timeupdate
DispatchTimeUpdate(pos) ==
  /\ ran' = onTime
  /\ pausedBy' = Pausers(pos)
  /\ onTime' = onTime \ Pausers(pos)
  /\ audio' = [currentTime |-> pos, paused |-> audio.paused \/ Pausers(pos) # {}]
  /\ tuQueued' = (~audio.paused /\ Pausers(pos) # {})

\* Play Trimmed Section click
ClickPlayTrim(startT, endT) ==
  /\ attached
  /\ nClicks < MaxClicks
  /\ nClicks' = nClicks + 1
  /\ ran' = {}
  /\ pausedBy' = {}
  /\ IF PlayRangeInvalid(startT, endT)
     THEN /\ lastClick' = [startT |-> startT, endT |-> endT, result |-> "InvalidRange"]
          /\ UNCHANGED <<audio, insts, onTime, tuQueued>>
     ELSE /\ lastClick' = [startT |-> startT, endT |-> endT, result |-> "started"]
          /\ audio' = [currentTime |-> SeekTo(startT), paused |-> FALSE]
          /\ tuQueued' = TRUE
          /\ insts' = Append(insts, [startT |-> startT, endT |-> endT])
          /\ onTime' = onTime \cup {Len(insts) + 1}
  /\ UNCHANGED <<sideVars, storeVars, attached>>

\* the media engine, playing, moves the playhead on and fires timeupdate
EngineTimeUpdate(pos) ==
  /\ ~audio.paused
  /\ pos \in Positions
  /\ pos > audio.currentTime
  /\ DispatchTimeUpdate(pos)
  /\ UNCHANGED <<sideVars, storeVars, attached, insts, nClicks, lastClick>>

\* the timeupdate event queued by a seek or a pause is dispatched
QueuedTimeUpdate ==
  /\ tuQueued
  /\ DispatchTimeUpdate(audio.currentTime)
  /\ UNCHANGED <<sideVars, storeVars, attached, insts, nClicks, lastClick>>

\* the element's own controls: the user drags the playhead
UserSeek(pos) ==
  /\ attached
  /\ pos \in Positions
  /\ pos # audio.currentTime
  /\ audio' = [audio EXCEPT !.currentTime = pos]
  /\ tuQueued' = TRUE
  /\ ran' = {}
  /\ pausedBy' = {}
  /\ UNCHANGED <<sideVars, storeVars, attached, insts, onTime, nClicks, lastClick>>

\* the element's own controls: pause
UserPause ==
  /\ attached
  /\ ~audio.paused
  /\ audio' = [audio EXCEPT !.paused = TRUE]
  /\ tuQueued' = TRUE
  /\ ran' = {}
  /\ pausedBy' = {}
  /\ UNCHANGED <<sideVars, storeVars, attached, insts, onTime, nClicks, lastClick>>

\* the element's own controls: play
UserPlay ==
  /\ attached
  /\ audio.paused
  /\ audio' = [audio EXCEPT !.paused = FALSE]
  /\ ran' = {}
  /\ pausedBy' = {}
  /\ UNCHANGED <<sideVars, storeVars, attached, insts, onTime, tuQueued, nClicks, lastClick>>

\* #main is rebuilt (main.innerHTML = ''): the element leaves the document
\* with its listeners still registered; a playing element is paused by the
\* browser, which queues a timeupdate
LeaveCardView ==
  /\ attached
  /\ attached' = FALSE
  /\ audio' = [audio EXCEPT !.paused = TRUE]
  /\ tuQueued' = (tuQueued \/ ~audio.paused)
  /\ ran' = {}
  /\ pausedBy' = {}
  /\ UNCHANGED <<sideVars, storeVars, insts, onTime, nClicks, lastClick>>

\* a card view has just been rendered for a stored card with its audio
PlayInit ==
  /\ db = "open"
  /\ boot = "ready"
  /\ cards = Put(<<>>, 1, SaveCardObject(NewCard(1, 0, 1, NoBpm, 0), "f1", 0))
  /\ blobs = Put(<<>>, 1, "f1")
  /\ memCard = SaveCardObject(NewCard(1, 0, 1, NoBpm, 0), "f1", 0)
  /\ nextId = 2
  /\ txq = <<>>
  /\ view = "card"
  /\ listed = {1}
  /\ selectedFile = NoFile
  /\ now = 0
  /\ nextSess = 1
  /\ nOps = 0
  /\ nDone = 0
  /\ lastDone = NoDone
  /\ audio = [currentTime |-> 0, paused |-> TRUE]
  /\ attached = TRUE
  /\ insts = <<>>
  /\ onTime = {}
  /\ tuQueued = FALSE
  /\ ran = {}
  /\ pausedBy = {}
  /\ nClicks = 0
  /\ lastClick = NoClick
  /\ NoTempo
  /\ NoReads
  /\ lastMeta = NoMeta
  /\ Opened
  /\ NoTabs

PlayNext ==
  \/ \E startT \in PlayInputs, endT \in PlayInputs : ClickPlayTrim(startT, endT)
  \/ \E pos \in Positions : EngineTimeUpdate(pos)
  \/ QueuedTimeUpdate
  \/ \E pos \in Positions : UserSeek(pos)
  \/ UserPause
  \/ UserPlay
  \/ LeaveCardView

\* one card view, from its rendering until after it has been replaced
PlaySpec == PlayInit /\ [][PlayNext]_vars

(* ------------------------ max tempo of a card -------------------------- *)
\* tempoValues of the session form
TempoValues == {40 + 10 * k : k \in 0..(MaxTempoBoxes - 1)}

RECURSIVE Ascending(_)
\* the values of the checked boxes, in document order
Ascending(S) ==
  IF S = {} THEN <<>>
  ELSE LET lo == CHOOSE x \in S : \A y \in S : x <= y
       IN <<lo>> \o Ascending(S \ {lo})

\* what a session's temposAchieved may be
TemposChecked == {Ascending(S) : S \in SUBSET TempoValues}

\* the session literal of the session form, as far as the list view reads it
TempoSession(sid, tempos) == [id |-> sid, temposAchieved |-> tempos]

RECURSIVE MathMax(_)
\* Math.max(...args) for at least one argument
MathMax(args) ==
  IF Len(args) = 1 THEN args[1]
  ELSE LET m == MathMax(Tail(args))
       IN IF args[1] > m THEN args[1] ELSE m

RECURSIVE ForEachMaxTempo_Overwrite(_, _)
\* the forEach body without the comparison: maxTempo = localMax
ForEachMaxTempo_Overwrite(sessions, maxTempo) ==
  IF sessions = <<>> THEN maxTempo
  ELSE ForEachMaxTempo_Overwrite(Tail(sessions),
                                 MathMax(Append(Head(sessions).temposAchieved, 0)))

RECURSIVE ForEachMaxTempo(_, _)
\* card.sessions.forEach(sess => { localMax = Math.max(...sess.temposAchieved, 0);
\* if (localMax > maxTempo) maxTempo = localMax })
ForEachMaxTempo(sessions, maxTempo) ==
  IF sessions = <<>> THEN maxTempo
  ELSE LET localMax == MathMax(Append(Head(sessions).temposAchieved, 0))
       IN ForEachMaxTempo(Tail(sessions),
                          IF localMax > maxTempo THEN localMax ELSE maxTempo)

\* renderCardList for one card: let maxTempo = 0, the forEach, the tempo line
RenderCardList ==
  /\ ~tempoP.shown
  /\ tempoP' = [shown |-> TRUE, maxTempo |-> ForEachMaxTempo(listCard, 0)]
  /\ UNCHANGED <<openVars, lastMeta, storeVars, playVars, readVars, tabVars, listCard>>

\* a session with the checked tempos has been saved for the card; the list
\* view is not on screen until it is rendered again
SessionSaved(tempos) ==
  /\ Len(listCard) < MaxListed
  /\ listCard' = Append(listCard, TempoSession(Len(listCard) + 1, tempos))
  /\ tempoP' = NoTempoP
  /\ UNCHANGED <<openVars, lastMeta, storeVars, playVars, readVars, tabVars>>

TempoNext ==
  \/ RenderCardList
  \/ \E tempos \in TemposChecked : SessionSaved(tempos)

\* the list view's max tempo over every session list the form can produce
TempoSpec == RepoInit /\ [][TempoNext]_vars

(* ---------------- playback left to run to its end ---------------------- *)
PlayLiveNext ==
  \/ \E startT \in PlayInputs, endT \in PlayInputs : ClickPlayTrim(startT, endT)
  \/ \E pos \in Positions : EngineTimeUpdate(pos)
  \/ QueuedTimeUpdate

\* the user clicks Play Trimmed Section and listens: while the media plays
\* the engine keeps moving the playhead and firing timeupdate, and every
\* queued timeupdate is dispatched
PlayLiveSpec ==
  /\ PlayInit
  /\ [][PlayLiveNext]_vars
  /\ WF_vars(\E pos \in Positions : EngineTimeUpdate(pos))
  /\ WF_vars(QueuedTimeUpdate)

(* ============================ properties =============================== *)
\* the step in which the oldest pending transaction, a save, finishes
SaveFinishes == txq # <<>> /\ Head(txq).kind = "save" /\ nDone' = nDone + 1

\* the step in which the oldest pending transaction, a delete, finishes
DeleteFinishes == txq # <<>> /\ Head(txq).kind = "delete" /\ nDone' = nDone + 1

\* C1: a save is all-or-nothing over the two stores.  When its transaction
\* commits, the card record it wrote and, if a payload was supplied, the
\* payload record are both stored; when it fails, both stores are exactly as
\* they were, so a new card has neither record and an existing one keeps its
\* previous card and payload.
C1_SaveAllOrNothing ==
  [][SaveFinishes =>
       LET tx == Head(txq)
       IN \/ /\ lastDone'.tx = "committed"
             /\ Has(cards', tx.id)
             /\ cards'[tx.id] = tx.card
             /\ tx.blob # NoFile => (Has(blobs', tx.id) /\ blobs'[tx.id] = tx.blob)
          \/ /\ lastDone'.tx = "aborted"
             /\ cards' = cards
             /\ blobs' = blobs]_vars

\* a save of a new card with a payload has failed: neither record exists
C1_Witness ==
  /\ lastDone.kind = "save"
  /\ lastDone.tx = "aborted"
  /\ lastDone.blob # NoFile
  /\ ~Has(cards, lastDone.id)
  /\ ~Has(blobs, lastDone.id)

\* C2: every card record in `cards` has a payload record in `blobs` under the
\* same id, in every state the UI's operations can lead to.
C2_CardHasPayload == \A id \in DOMAIN cards : Has(blobs, id)

\* C3: every key of `blobs` is the id of a record in `cards`.
C3_PayloadHasCard == \A k \in DOMAIN blobs : Has(cards, k)

\* a delete has committed after another operation and a payload is still stored
C3_Witness ==
  /\ lastDone.kind = "delete"
  /\ lastDone.tx = "committed"
  /\ nDone >= 2
  /\ DOMAIN blobs # {}

\* C4: a stored card's audioBlobId is its id when a payload is stored under
\* that id, and empty when none is.
C4_AudioBlobIdMatchesPayload ==
  \A id \in DOMAIN cards :
    IF Has(blobs, id) THEN cards[id].audioBlobId = id
    ELSE cards[id].audioBlobId = NoBlobId

\* C5 as claimed: when save(c, p) commits, the stored card equals c in every
\* field but updatedAt, updatedAt is not before the time of the call, and the
\* stored payload is p.
C5_RoundTripAllFields ==
  [][(SaveFinishes /\ Head(txq).blob # NoFile /\ lastDone'.tx = "committed") =>
       LET tx == Head(txq)
       IN /\ Has(cards', tx.id)
          /\ [cards'[tx.id] EXCEPT !.updatedAt = tx.arg.updatedAt] = tx.arg
          /\ cards'[tx.id].updatedAt >= tx.t0
          /\ Has(blobs', tx.id)
          /\ blobs'[tx.id] = tx.blob]_vars

\* C5 amended: when save(c, p) commits, the stored card equals c in every
\* field but updatedAt and audioBlobId; audioBlobId is c.id, updatedAt is not
\* before the time of the call, and the stored payload is p.
C5_RoundTrip ==
  [][(SaveFinishes /\ Head(txq).blob # NoFile /\ lastDone'.tx = "committed") =>
       LET tx == Head(txq)
       IN /\ Has(cards', tx.id)
          /\ [cards'[tx.id] EXCEPT !.updatedAt = tx.arg.updatedAt,
                                   !.audioBlobId = tx.arg.audioBlobId] = tx.arg
          /\ cards'[tx.id].audioBlobId = tx.id
          /\ cards'[tx.id].updatedAt >= tx.t0
          /\ Has(blobs', tx.id)
          /\ blobs'[tx.id] = tx.blob]_vars

\* a save with a payload has committed for a card passed with audioBlobId ''
\* after the clock had moved on
C5_Witness ==
  /\ lastDone.kind = "save"
  /\ lastDone.tx = "committed"
  /\ lastDone.blob # NoFile
  /\ Has(cards, lastDone.id)
  /\ cards[lastDone.id].updatedAt > 0
  /\ Has(blobs, lastDone.id)
  /\ blobs[lastDone.id] = lastDone.blob

\* C6: when delete(id) commits, neither a card nor a payload is stored under
\* id and the call succeeds; when no card was stored under id, both stores
\* are left as they were.
C6_DeleteCompleteness ==
  [][(DeleteFinishes /\ lastDone'.tx = "committed") =>
       LET id == Head(txq).id
       IN /\ ~Has(cards', id)
          /\ ~Has(blobs', id)
          /\ lastDone'.promise = "resolved"
          /\ ~Has(cards, id) => (cards' = cards /\ blobs' = blobs)
          /\ \A k \in DOMAIN cards : k # id => (Has(cards', k) /\ cards'[k] = cards[k])]_vars

\* two operations on, a delete has committed and the stores are empty
C6_Witness ==
  /\ lastDone.kind = "delete"
  /\ lastDone.tx = "committed"
  /\ lastDone.promise = "resolved"
  /\ nDone = 2
  /\ cards = <<>>
  /\ blobs = <<>>

\* C7: a finished save or delete has completed: with success when its
\* transaction committed, with a failure reported to the caller when the
\* transaction failed, by a request error or by an abort at commit time.
C7_FailureReported ==
  /\ lastDone.tx = "committed" => lastDone.promise = "resolved"
  /\ lastDone.tx = "aborted" => lastDone.promise = "rejected"

\* C8: at every position sample a registered monitor gets, it pauses the
\* handle and deregisters itself if the position is >= its endSec, and stays
\* registered without pausing if the position is below; so a registered
\* monitor with no sample outstanding has seen only positions below endSec.
C8_PauseAtBoundary ==
  /\ [](\A i \in onTime : ~tuQueued => audio.currentTime < insts[i].endT)
  /\ [][\A i \in ran' :
          IF audio'.currentTime >= insts[i].endT
          THEN audio'.paused /\ i \notin onTime' /\ i \in pausedBy'
          ELSE i \in onTime' /\ i \notin pausedBy']_vars

\* a monitor has just paused at a sample beyond its endSec
C8_Witness ==
  \E i \in pausedBy : audio.currentTime > insts[i].endT /\ audio.paused

\* C9: a click with endSec <= startSec is refused as an invalid range and
\* changes nothing of the handle: no seek, no play, no monitor.
C9_InvalidRangeUntouched ==
  [][(nClicks' = nClicks + 1 /\ lastClick'.endT <= lastClick'.startT) =>
       /\ lastClick'.result = "InvalidRange"
       /\ audio' = audio
       /\ onTime' = onTime
       /\ insts' = insts
       /\ tuQueued' = tuQueued]_vars

\* a click with endSec = startSec, not zero, was refused
C9_Witness ==
  /\ lastClick.result = "InvalidRange"
  /\ lastClick.endT = lastClick.startT
  /\ lastClick.startT > 0

\* C10: the monitor of an instance that has stopped, or whose view has been
\* left, does not run again.
C10_NoRunAfterEnd ==
  [][\A i \in 1..Len(insts) : (i \notin onTime \/ ~attached) => i \notin ran']_vars

\* C11: every stored card's trim satisfies 0 <= startSec < endSec, whether it
\* was written by the add view or by Save Changes of the card view.
C11_TrimValid ==
  \A id \in DOMAIN cards :
    /\ 0 <= cards[id].trim.startSec
    /\ cards[id].trim.startSec < cards[id].trim.endSec

\* the values of every temposAchieved of a list of sessions
AllTempos(sessions) ==
  UNION {{sessions[i].temposAchieved[j] : j \in 1..Len(sessions[i].temposAchieved)} :
           i \in 1..Len(sessions)}

\* C12: the max tempo shown for a card is the largest value in the union of
\* the temposAchieved of its current sessions, and 0 when that union is empty.
C12_MaxTempo ==
  tempoP.shown =>
    LET all == AllTempos(listCard)
    IN IF all = {} THEN tempoP.maxTempo = 0
       ELSE /\ tempoP.maxTempo \in all
            /\ \A x \in all : x <= tempoP.maxTempo

\* the largest tempo is in the first of two sessions, and not its first value
C12_Witness ==
  /\ tempoP.shown
  /\ Len(listCard) = 2
  /\ listCard[1].temposAchieved = <<40, 50>>
  /\ listCard[2].temposAchieved = <<40>>
  /\ tempoP.maxTempo = 50

\* C13: no repository operation is issued unless openDB has succeeded; openDB
\* is not run again once it has succeeded or failed; the connection, once
\* set, is never replaced; after a failed openDB no operation is ever issued.
C13_InitOnce ==
  /\ [](txq # <<>> => db = "open")
  /\ [](boot = "failed" => (db = "null" /\ txq = <<>>))
  /\ [][boot # "opening" => boot' # "opening"]_vars
  /\ [][db # "null" => db' = db]_vars
  /\ [][db' # db => (boot = "opening" /\ db' = "open")]_vars

\* openDB has succeeded, the list has been rendered and a save is pending
C13_Witness ==
  /\ db = "open"
  /\ boot = "ready"
  /\ txq # <<>>
  /\ Head(txq).kind = "save"

\* the step in which saveCard is called
SaveCalled ==
  /\ nOps' = nOps + 1
  /\ Len(txq') = Len(txq) + 1
  /\ txq'[Len(txq')].kind = "save"

\* C14: the record a save puts carries the time read at that save as updatedAt,
\* with or without a payload and whatever the card held before; when the save
\* commits that value is stored, and it is not below the updatedAt stored for
\* the card before.
C14_UpdatedAtRefreshed ==
  /\ [][SaveCalled => txq'[Len(txq')].card.updatedAt = now']_vars
  /\ [][(SaveFinishes /\ lastDone'.tx = "committed") =>
          LET tx == Head(txq)
          IN /\ cards'[tx.id].updatedAt = tx.card.updatedAt
             /\ Has(cards, tx.id) => cards'[tx.id].updatedAt >= cards[tx.id].updatedAt]_vars

\* a save without a payload has committed over a stored card and moved its
\* updatedAt on
C14_Witness ==
  /\ lastDone.kind = "save"
  /\ lastDone.tx = "committed"
  /\ lastDone.blob = NoFile
  /\ nDone = 2
  /\ Has(cards, lastDone.id)
  /\ cards[lastDone.id].updatedAt = now
  /\ now > 0

\* the step in which the oldest pending transaction, a getCard or getBlob
\* call, returns
GetFinishes ==
  /\ txq # <<>>
  /\ Head(txq).kind \in {"getCard", "getBlob"}
  /\ Len(txq') = Len(txq) - 1

\* C15: getCard(id) with no card stored under id, and getBlob(id) with no
\* payload stored under id, resolve with undefined and are not rejected,
\* whether or not anything was ever stored under id; a read leaves both
\* stores as they were.
C15_NotFoundIsAbsence ==
  [][GetFinishes =>
       LET tx == Head(txq)
           store == IF tx.kind = "getCard" THEN cards ELSE blobs
       IN /\ lastRead'.kind = tx.kind
          /\ lastRead'.id = tx.id
          /\ ~Has(store, tx.id) =>
               (lastRead'.promise = "resolved" /\ lastRead'.result = <<>>)
          /\ cards' = cards
          /\ blobs' = blobs]_vars

\* getCard has returned nothing for an id whose card a committed delete had
\* just removed
C15_Witness ==
  /\ lastRead.kind = "getCard"
  /\ lastRead.promise = "resolved"
  /\ lastRead.result = <<>>
  /\ lastDone.kind = "delete"
  /\ lastDone.tx = "committed"
  /\ lastDone.id = lastRead.id
  /\ nDone = 2
  /\ ~Has(cards, lastRead.id)
  /\ txq = <<>>

\* C16: every stored card's bpmTarget is absent or a positive integer,
\* whether it was written by the add view or by Save Changes of the card view.
C16_BpmTargetPositive ==
  \A id \in DOMAIN cards :
    cards[id].bpmTarget = NoBpm \/ cards[id].bpmTarget[1] > 0

\* C17: Save Session issues one save of the whole card, without a payload,
\* whose sessions are the in-memory card's sessions before the click followed
\* by the new session; when that save commits, the stored card is that record
\* and no payload record has changed; the sessions stored for a card change
\* only when a save of the card commits.
C17_AppendSession ==
  /\ [][(SaveCalled /\ txq'[Len(txq')].cont = "session") =>
          LET tx == txq'[Len(txq')]
              n == Len(memCard.sessions)
          IN /\ tx.id = memCard.id
             /\ tx.blob = NoFile
             /\ Len(tx.card.sessions) = n + 1
             /\ SubSeq(tx.card.sessions, 1, n) = memCard.sessions
             /\ tx.card.sessions[n + 1] = NewSession(nextSess, memCard.id, now')
             /\ SubSeq(txq', 1, Len(txq)) = txq]_vars
  /\ [][(SaveFinishes /\ Head(txq).cont = "session" /\ lastDone'.tx = "committed") =>
          /\ cards'[Head(txq).id] = Head(txq).card
          /\ blobs' = blobs]_vars
  /\ [][\A id \in DOMAIN cards' :
          (~Has(cards, id) \/ cards'[id].sessions # cards[id].sessions) =>
            (SaveFinishes /\ Head(txq).id = id /\ lastDone'.tx = "committed")]_vars

\* a second session has been appended to a card and committed: it is stored
\* last, behind the older one
C17_Witness ==
  /\ lastDone.kind = "save"
  /\ lastDone.tx = "committed"
  /\ Has(cards, lastDone.id)
  /\ Len(cards[lastDone.id].sessions) = 2
  /\ cards[lastDone.id].sessions[2].date > cards[lastDone.id].sessions[1].date
  /\ cards[lastDone.id].sessions[2].id = 2

\* C18: when a page's save of its copy commits, the sessions stored for the
\* card are exactly the sessions of that copy as it was saved: nothing of what
\* an earlier save of another copy stored is kept or merged in.
C18_LastWriteWins ==
  [][(SaveFinishes /\ Head(txq).cont \in Tabs /\ lastDone'.tx = "committed") =>
       LET tx == Head(txq)
       IN /\ cards'[tx.id].sessions = tx.arg.sessions
          /\ lastTab' = tx.cont
          /\ \A i \in 1..Len(cards'[tx.id].sessions) :
               \E j \in 1..Len(tx.arg.sessions) :
                 tx.arg.sessions[j] = cards'[tx.id].sessions[i]]_vars

\* both pages appended a session to their copy; tabA's save committed (its
\* page is reloading the card), tabB's committed after it: the stored list
\* is tabB's and the session tabA appended is not stored
C18_Witness ==
  /\ lastTab = "tabB"
  /\ \E i \in 1..Len(txq) : txq[i].kind = "getCard" /\ txq[i].cont = "tabA"
  /\ Len(copies["tabA"].sessions) = 1
  /\ cards[1].sessions = copies["tabB"].sessions
  /\ Len(cards[1].sessions) = 1
  /\ cards[1].sessions[1].id # copies["tabA"].sessions[1].id

\* C19: at most one monitor is registered on the handle at any time, and a
\* monitor that pauses the handle does so at a position not below the endSec
\* of the newest instance.
C19_FreshInstance ==
  /\ Cardinality(onTime) <= 1
  /\ \A i \in pausedBy : audio.currentTime >= insts[Len(insts)].endT

\* the step in which the oldest pending transaction, a getAllCards call,
\* returns
GetAllFinishes ==
  /\ txq # <<>>
  /\ Head(txq).kind = "getAll"
  /\ Len(txq') = Len(txq) - 1

\* C20: getAllCards resolves with exactly one record for each id whose last
\* committed operation was a save, equal to the record that save wrote, and
\* with no record for any other id, whatever saves and deletes committed or
\* failed before.
C20_ListAllIsLastCommitted ==
  [][GetAllFinishes =>
       LET r == lastRead'.result
       IN /\ lastRead'.kind = "getAll"
          /\ lastRead'.promise = "resolved"
          /\ \A id \in DOMAIN written :
               /\ Cardinality({i \in 1..Len(r) : r[i].id = id}) = 1
               /\ \E i \in 1..Len(r) : r[i] = written[id]
          /\ \A i \in 1..Len(r) : r[i].id \in DOMAIN written]_vars

\* getAllCards has returned two records after one operation committed and
\* another failed
C20_Witness ==
  /\ lastRead.kind = "getAll"
  /\ Len(lastRead.result) = 2
  /\ lastRead.result[1].id # lastRead.result[2].id
  /\ nDone = 2
  /\ lastDone.tx = "aborted"
  /\ txq = <<>>

\* C21: when the save of a metadata edit or of a session append commits,
\* `blobs` is as it was, every card under another id is as it was, and the
\* stored card keeps its id, createdAt and audioBlobId; when a delete commits,
\* the card and payload records under every other id are as they were.
C21_Frame ==
  /\ [][(SaveFinishes /\ Head(txq).cont \in {"meta", "session"}
         /\ lastDone'.tx = "committed") =>
          LET id == Head(txq).id
          IN /\ blobs' = blobs
             /\ \A k \in DOMAIN cards : k # id => (Has(cards', k) /\ cards'[k] = cards[k])
             /\ DOMAIN cards' = DOMAIN cards \cup {id}
             /\ Has(cards, id) =>
                  /\ cards'[id].id = cards[id].id
                  /\ cards'[id].createdAt = cards[id].createdAt
                  /\ cards'[id].audioBlobId = cards[id].audioBlobId]_vars
  /\ [][(DeleteFinishes /\ lastDone'.tx = "committed") =>
          LET id == Head(txq).id
          IN /\ \A k \in DOMAIN cards : k # id => (Has(cards', k) /\ cards'[k] = cards[k])
             /\ \A k \in DOMAIN blobs : k # id => (Has(blobs', k) /\ blobs'[k] = blobs[k])
             /\ DOMAIN cards' = DOMAIN cards \ {id}
             /\ DOMAIN blobs' = DOMAIN blobs \ {id}]_vars

\* with two cards stored, a save without a payload has committed over one of
\* them some time after it was created
C21_Witness ==
  /\ lastDone.kind = "save"
  /\ lastDone.tx = "committed"
  /\ lastDone.blob = NoFile
  /\ Cardinality(DOMAIN cards) = 2
  /\ Cardinality(DOMAIN blobs) = 2
  /\ cards[lastDone.id].updatedAt > cards[lastDone.id].createdAt

\* C22: a Save Changes click with endSec <= startSec shows the alert and
\* changes nothing: no transaction is issued, the in-memory card and both
\* stores are as they were.
C22_InvalidEditRejected ==
  [][(lastMeta'.n = lastMeta.n + 1 /\ lastMeta'.newEnd <= lastMeta'.newStart) =>
       /\ lastMeta'.result = "alert"
       /\ txq' = txq
       /\ memCard' = memCard
       /\ nOps' = nOps
       /\ cards' = cards
       /\ blobs' = blobs]_vars

\* after an edit that was saved, a click with endSec = startSec was refused
C22_Witness ==
  /\ lastMeta.n = 2
  /\ lastMeta.result = "alert"
  /\ lastMeta.newEnd = lastMeta.newStart
  /\ nOps = 1

\* C23: openDB on a database that already holds `cards` and `blobs` creates
\* no store and leaves every card and payload record as it was; openDB on a
\* database that does not exist yet leaves exactly the two stores, `cards`
\* keyed by the record's id and `blobs` keyed with each put.
C23_InitIdempotent ==
  [][db' # db =>
       /\ DOMAIN schema' = {"cards", "blobs"}
       /\ schema'["cards"] = "id"
       /\ schema'["blobs"] = NoKeyPath
       /\ cards' = cards
       /\ blobs' = blobs
       /\ ({"cards", "blobs"} \subseteq DOMAIN schema) => schema' = schema]_vars

\* openDB has succeeded on a database that held a card and its payload, and
\* nothing has been saved or deleted since: both records are still stored
C23_Witness ==
  /\ db = "open"
  /\ nOps = 0
  /\ schema = BothStores
  /\ Has(cards, 1)
  /\ Has(blobs, 1)

\* C24: each committed save of a stored card leaves the sessions stored for
\* it before as a prefix of the sessions stored after.
C24_SessionsOnlyAppend ==
  [][(SaveFinishes /\ lastDone'.tx = "committed" /\ Has(cards, Head(txq).id)) =>
       LET before == cards[Head(txq).id].sessions
           after == cards'[Head(txq).id].sessions
       IN /\ Len(before) <= Len(after)
          /\ SubSeq(after, 1, Len(before)) = before]_vars

\* C25: when a save of the card has just failed and the next save to finish,
\* a session append, commits, the stored card holds exactly one session more
\* than before.
C25_RetryStoresOne ==
  [][(SaveFinishes /\ Head(txq).cont = "session" /\ lastDone'.tx = "committed"
      /\ lastDone.kind = "save" /\ lastDone.tx = "aborted"
      /\ lastDone.id = Head(txq).id /\ Has(cards, Head(txq).id)) =>
       Len(cards'[Head(txq).id].sessions) = Len(cards[Head(txq).id].sessions) + 1]_vars

\* C26: every monitor that is registered is eventually deregistered.
C26_MonitorEventuallyLeaves ==
  \A i \in 1..MaxClicks : (i \in onTime) ~> (i \notin onTime)

====
